---- MODULE Spec2Model ----
(***************************************************************************)
(* Model of the chart pipeline of the repository:                          *)
(*   calculateRenkoBricks   (utils/renkoHelper, src/unnamed/part_003)      *)
(*   filterRelevantSignals  (components/Chart.tsx)                         *)
(* as the Chart component runs them: in 'renko' mode the bricks built from *)
(* the bars are the filter's candidates, in 'area' mode the bars are.      *)
(* Prices are integers (exact arithmetic); an absent topoFundo is the      *)
(* empty sequence <<>>, a present one the one-element sequence <<v>>.      *)
(***************************************************************************)
EXTENDS Integers, Sequences, FiniteSets, TLC

VARIABLES
    data,             \* Chart prop `data`: the bars, oldest first
    brickSize,        \* Chart state `brickSize`
    chartType,        \* Chart state `chartType`: "area" | "renko"
    pc,               \* position of the recomputation
    i,                \* calculateRenkoBricks: loop index (1-based)
    currentRefPrice,  \* calculateRenkoBricks: reference price
    brickIndex,       \* calculateRenkoBricks: next brick index
    periodHigh,       \* calculateRenkoBricks: accumulated high
    periodLow,        \* calculateRenkoBricks: accumulated low
    bricks,           \* calculateRenkoBricks: output array
    assigned,         \* calculateRenkoBricks: indices of the bricks written
                      \* by the marker assignment of lines 127 and 129
    items,            \* filterRelevantSignals: argument
    fi,               \* filterRelevantSignals: forEach index (1-based)
    pending,          \* filterRelevantSignals: pending slot, <<>> or <<p>>
    validIndices,     \* filterRelevantSignals: the keep-set (1-based)
    activeData,       \* Chart: topoFundoPoint and isTopSignal of the points of
                      \* areaData or renkoData
    file,             \* parseCSV: the rows of the file
    promise,          \* parseCSV: state of the returned promise
    parsedData,       \* parseCSV: the value the promise resolved with
    appStage,         \* App state `appStage`: "idle" | "dashboard"
    loadingFile,      \* App state `loadingFile`
    error,            \* App state `error`: is a message set
    fileName,         \* App state `fileName`, "" for null
    apiKey,           \* App state `apiKey`
    isKeyModalOpen,   \* App state `isKeyModalOpen`
    tradeSignal,      \* App state `tradeSignal`: <<>> for null, or <<sig>>
    loadingSignal,    \* App state `loadingSignal`
    uploads,          \* handleFileUpload calls waiting for parseCSV
    requests,         \* generateTradeSignal calls waiting for the answer
    nUploads          \* number of files chosen so far

vars == <<data, brickSize, chartType, pc, i, currentRefPrice, brickIndex,
          periodHigh, periodLow, bricks, assigned, items, fi, pending,
          validIndices, activeData, file, promise, parsedData, appStage,
          loadingFile, error, fileName, apiKey, isKeyModalOpen, tradeSignal,
          loadingSignal, uploads, requests, nUploads>>

renkoVars == <<i, currentRefPrice, brickIndex, periodHigh, periodLow, bricks,
               assigned>>
filterVars == <<items, fi, pending, validIndices>>
propVars == <<data, brickSize, chartType>>
csvVars == <<file, promise, parsedData>>
appVars == <<appStage, loadingFile, error, fileName, apiKey, isKeyModalOpen,
             tradeSignal, loadingSignal, uploads, requests, nUploads>>

----------------------------------------------------------------------------
(* Bounds of the model *)

\* the longest bar sequence
MaxBars == 3

\* the most rows of a file
MaxRows == 2

\* the most files chosen in the file input
MaxUploads == 3

----------------------------------------------------------------------------
(* Arithmetic helpers: Math.abs, Math.max, Math.min *)

Abs(x) == IF x < 0 THEN -x ELSE x
Max(a, b) == IF a >= b THEN a ELSE b
Min(a, b) == IF a <= b THEN a ELSE b

\* The number NaN, which parseFloat returns for a cell that is no number; it
\* stands outside the range of the prices of the model.
NaN == -999999

\* Math.abs(a - b), a <= b and a >= b on numbers that may be NaN: arithmetic
\* on NaN gives NaN and every comparison with NaN is false
AbsDiff(a, b) == IF a = NaN \/ b = NaN THEN NaN ELSE Abs(a - b)
Leq(a, b) == a /= NaN /\ b /= NaN /\ a <= b
Geq(a, b) == a /= NaN /\ b /= NaN /\ a >= b

----------------------------------------------------------------------------
(* Inputs *)

\* Bars of the renko runs: a close, high/low around it and a marker. A kind
\* is <<high - close, low - close, marker>>; the last kind has its high
\* below and its low above the close.
Closes == 0..3
BarKinds == {<<1, -1, "none">>, <<1, -1, "high">>, <<1, -1, "low">>,
             <<-1, 1, "none">>}

RenkoBars ==
    {[close |-> c, high |-> c + k[1], low |-> c + k[2],
      topoFundo |-> CASE k[3] = "none" -> <<>>
                      [] k[3] = "high" -> <<c + k[1]>>
                      [] k[3] = "low" -> <<c + k[2]>>] :
        c \in Closes, k \in BarKinds}

BrickSizes == {-1, 0, 1, 2, 3}

\* Bars of the area runs: the filter reads only high, low and topoFundo.
AreaBars ==
    {[close |-> l, high |-> h, low |-> l, topoFundo |-> m] :
        h \in {3, 4}, l \in {1, 2}, m \in {<<>>, <<1>>, <<3>>, <<4>>}}

\* Bars with a marker whose high or low is NaN
MalformedBars ==
    {[close |-> 2, high |-> NaN, low |-> 2, topoFundo |-> <<3>>],
     [close |-> 2, high |-> 4, low |-> NaN, topoFundo |-> <<3>>],
     [close |-> 2, high |-> NaN, low |-> NaN, topoFundo |-> <<1>>]}

\* Bars around the price 0 whose marker cell was no number: the marker is NaN
NaNMarkerBars ==
    {[close |-> c, high |-> c + 1, low |-> c - 1, topoFundo |-> m] :
        c \in {0, 2}, m \in {<<>>, <<NaN>>}}

\* The bars arrive in time order: the date of a bar is its position.
\* Every bar has an mm72 of its own; the jma is absent on the even positions.
WithDates(f) ==
    [k \in DOMAIN f |-> [date |-> k, close |-> f[k].close, high |-> f[k].high,
                         low |-> f[k].low, topoFundo |-> f[k].topoFundo,
                         mm72 |-> <<100 + k>>,
                         jma |-> IF k % 2 = 1 THEN <<200 + k>> ELSE <<>>]]

IsBarSeq(d, S) == \E n \in 0..MaxBars : \E f \in [1..n -> S] : d = WithDates(f)

\* Example 1 of the specification: closes 100, 100, 126, 150, 151, step 25.
Example1Closes == <<100, 100, 126, 150, 151>>
Example1Bars ==
    WithDates([k \in 1..5 |-> [close |-> Example1Closes[k],
                               high |-> Example1Closes[k] + 1,
                               low |-> Example1Closes[k] - 1,
                               topoFundo |-> <<>>]])

\* A longer run with step 2: bar 2 emits, bar 3 stays inside the grid cell
\* and carries a marker, bar 4 emits, bar 5 stays; bar 1 has the widest range.
WindowBars ==
    WithDates(<<[close |-> 0, high |-> 9, low |-> -9, topoFundo |-> <<>>],
                [close |-> 2, high |-> 3, low |-> 0, topoFundo |-> <<>>],
                [close |-> 3, high |-> 6, low |-> 1, topoFundo |-> <<6>>],
                [close |-> 4, high |-> 5, low |-> 3, topoFundo |-> <<>>],
                [close |-> 4, high |-> 4, low |-> 4, topoFundo |-> <<>>]>>)

\* Example 2 of the specification: top(10), top(12), bottom(5), top(9).
Example2Bars ==
    WithDates(<<[close |-> 5, high |-> 10, low |-> 0, topoFundo |-> <<10>>],
                [close |-> 5, high |-> 12, low |-> 0, topoFundo |-> <<12>>],
                [close |-> 5, high |-> 20, low |-> 5, topoFundo |-> <<5>>],
                [close |-> 5, high |-> 9, low |-> 0, topoFundo |-> <<9>>]>>)

\* Two bars, the second with a marker and two bricks at step 1.
MarkedBars ==
    WithDates(<<[close |-> 0, high |-> 1, low |-> -1, topoFundo |-> <<>>],
                [close |-> 2, high |-> 3, low |-> 1, topoFundo |-> <<1>>]>>)

\* The bars and steps of the runs with several recomputations
CallInputs == {WindowBars, Example2Bars, MarkedBars}
CallSizes == {1, 2}

----------------------------------------------------------------------------
(* calculateRenkoBricks *)

\* the bar read with the marker of the last bar that had one
BarAtCarried(d, k) ==
    LET marked == {j \in 1..k : d[j].topoFundo /= <<>>}
        last == CHOOSE j \in marked : \A m \in marked : m <= j
    IN IF marked = {} THEN d[k]
       ELSE [d[k] EXCEPT !.topoFundo = d[last].topoFundo]

\* line 33: the fields of data[i], read anew at every iteration
BarAt(d, k) == d[k]

\* the early return without the test for an empty array
EarlyReturnNoLen(d, s) == s <= 0

\* line 20: the early return
EarlyReturn(d, s) == Len(d) = 0 \/ s <= 0

\* the first close taken as it is, not floored to the grid
InitialRefNoFloor(close, s) == close

\* line 25: Math.floor(data[0].close / brickSize) * brickSize
InitialRef(close, s) == (close \div s) * s

\* an up brick created without the bar's marker
UpBrickNoMarker(ref, idx, bar, s) ==
    [index |-> idx, date |-> bar.date, open |-> ref, close |-> ref + s,
     high |-> ref + s, low |-> ref, type |-> "up",
     bounds |-> <<ref, ref + s>>, wickBounds |-> <<ref, ref + s>>,
     mm72 |-> bar.mm72, jma |-> bar.jma, topoFundo |-> <<>>]

\* lines 43-59
UpBrick(ref, idx, bar, s) ==
    [index |-> idx, date |-> bar.date, open |-> ref, close |-> ref + s,
     high |-> ref + s, low |-> ref, type |-> "up",
     bounds |-> <<ref, ref + s>>, wickBounds |-> <<ref, ref + s>>,
     mm72 |-> bar.mm72, jma |-> bar.jma, topoFundo |-> bar.topoFundo]

\* a down brick created without the bar's indicators
DownBrickNoIndicators(ref, idx, bar, s) ==
    [index |-> idx, date |-> bar.date, open |-> ref, close |-> ref - s,
     high |-> ref, low |-> ref - s, type |-> "down",
     bounds |-> <<ref - s, ref>>, wickBounds |-> <<ref - s, ref>>,
     mm72 |-> <<>>, jma |-> <<>>, topoFundo |-> bar.topoFundo]

\* lines 66-82
DownBrick(ref, idx, bar, s) ==
    [index |-> idx, date |-> bar.date, open |-> ref, close |-> ref - s,
     high |-> ref, low |-> ref - s, type |-> "down",
     bounds |-> <<ref - s, ref>>, wickBounds |-> <<ref - s, ref>>,
     mm72 |-> bar.mm72, jma |-> bar.jma, topoFundo |-> bar.topoFundo]

\* the up loop with > in place of >=
RECURSIVE UpLoopStrict(_, _, _)
UpLoopStrict(st, bar, s) ==
    IF bar.close > st.ref + s
    THEN UpLoopStrict([created |-> Append(st.created, UpBrick(st.ref, st.idx, bar, s)),
                       ref |-> st.ref + s, idx |-> st.idx + 1], bar, s)
    ELSE st

\* lines 42-62: while (close >= currentRefPrice + brickSize)
RECURSIVE UpLoop(_, _, _)
UpLoop(st, bar, s) ==
    IF bar.close >= st.ref + s
    THEN UpLoop([created |-> Append(st.created, UpBrick(st.ref, st.idx, bar, s)),
                 ref |-> st.ref + s, idx |-> st.idx + 1], bar, s)
    ELSE st

\* the down loop testing close <= currentRefPrice
RECURSIVE DownLoopNoStep(_, _, _)
DownLoopNoStep(st, bar, s) ==
    IF bar.close <= st.ref
    THEN DownLoopNoStep([created |-> Append(st.created, DownBrick(st.ref, st.idx, bar, s)),
                         ref |-> st.ref - s, idx |-> st.idx + 1], bar, s)
    ELSE st

\* the down loop with < in place of <=
RECURSIVE DownLoopStrict(_, _, _)
DownLoopStrict(st, bar, s) ==
    IF bar.close < st.ref - s
    THEN DownLoopStrict([created |-> Append(st.created, DownBrick(st.ref, st.idx, bar, s)),
                         ref |-> st.ref - s, idx |-> st.idx + 1], bar, s)
    ELSE st

\* lines 65-85: while (close <= currentRefPrice - brickSize)
RECURSIVE DownLoop(_, _, _)
DownLoop(st, bar, s) ==
    IF bar.close <= st.ref - s
    THEN DownLoop([created |-> Append(st.created, DownBrick(st.ref, st.idx, bar, s)),
                   ref |-> st.ref - s, idx |-> st.idx + 1], bar, s)
    ELSE st

\* the bricks of one bar without the down loop
EmitBricksUpOnly(ref, idx, bar, s) ==
    UpLoop([created |-> <<>>, ref |-> ref, idx |-> idx], bar, s)

\* the brick counter restarted at every bar
EmitBricksRestart(ref, idx, bar, s) ==
    DownLoop(UpLoop([created |-> <<>>, ref |-> ref, idx |-> 0], bar, s), bar, s)

\* lines 39-85: the bricks of one bar
EmitBricks(ref, idx, bar, s) ==
    DownLoop(UpLoop([created |-> <<>>, ref |-> ref, idx |-> idx], bar, s), bar, s)

\* lines 91-102: first brick with the greatest body top, first with the
\* least body bottom (maxVal starts at -Infinity, minVal at Infinity)
RECURSIVE ScanExtremes(_, _, _)
ScanExtremes(created, k, acc) ==
    IF k > Len(created) THEN acc
    ELSE LET bTop == created[k].bounds[2]
             bBottom == created[k].bounds[1]
             a1 == IF k = 1 \/ bTop > acc.maxVal
                   THEN [acc EXCEPT !.maxVal = bTop, !.maxBrickIdx = k]
                   ELSE acc
             a2 == IF k = 1 \/ bBottom < a1.minVal
                   THEN [a1 EXCEPT !.minVal = bBottom, !.minBrickIdx = k]
                   ELSE a1
         IN ScanExtremes(created, k + 1, a2)

\* the first brick of the batch taken as the highest and the lowest
ExtremesFirst(created) ==
    [maxBrickIdx |-> 1, minBrickIdx |-> 1,
     maxVal |-> created[1].bounds[2], minVal |-> created[1].bounds[1]]

Extremes(created) ==
    ScanExtremes(created, 1, [maxBrickIdx |-> 1, minBrickIdx |-> 1,
                              maxVal |-> 0, minVal |-> 0])

\* the accumulated extremes assigned as they are, and no widening to the body
AssignWicksRaw(created, pHigh, pLow) ==
    LET e == Extremes(created)
        c1 == [created EXCEPT ![e.maxBrickIdx].wickBounds[2] = pHigh]
    IN [c1 EXCEPT ![e.minBrickIdx].wickBounds[1] = pLow]

\* lines 104-117: the accumulated extremes go to the highest and the lowest
\* brick, then every brick's wick is widened to cover its body
AssignWicks(created, pHigh, pLow) ==
    LET e == Extremes(created)
        hi == e.maxBrickIdx
        lo == e.minBrickIdx
        c1 == [created EXCEPT ![hi].wickBounds[2] = Max(pHigh, created[hi].bounds[2])]
        c2 == [c1 EXCEPT ![lo].wickBounds[1] = Min(pLow, c1[lo].bounds[1])]
    IN [k \in 1..Len(c2) |->
           [c2[k] EXCEPT !.wickBounds = <<Min(c2[k].wickBounds[1], c2[k].bounds[1]),
                                          Max(c2[k].wickBounds[2], c2[k].bounds[2])>>]]

\* the marker assignment with <= in place of <
MarkerTargetTieHigh(created, bar, pHigh, pLow) ==
    IF bar.topoFundo = <<>> \/ bar.topoFundo[1] = 0 \/ bar.topoFundo[1] = NaN THEN 0
    ELSE LET e == Extremes(created)
             tf == bar.topoFundo[1]
             distHigh == Abs(tf - pHigh)
             distLow == Abs(tf - pLow)
         IN IF distHigh <= distLow THEN e.maxBrickIdx ELSE e.minBrickIdx

\* lines 120-130: the brick of the batch the marker is written to, 0 when
\* the test of line 120 fails (an absent marker, 0 and NaN are falsy)
MarkerTarget(created, bar, pHigh, pLow) ==
    IF bar.topoFundo = <<>> \/ bar.topoFundo[1] = 0 \/ bar.topoFundo[1] = NaN THEN 0
    ELSE LET e == Extremes(created)
             tf == bar.topoFundo[1]
             distHigh == Abs(tf - pHigh)
             distLow == Abs(tf - pLow)
         IN IF distHigh < distLow THEN e.maxBrickIdx ELSE e.minBrickIdx

\* lines 120-131: if (topoFundo) { ... }
AssignMarker(created, bar, pHigh, pLow) ==
    LET t == MarkerTarget(created, bar, pHigh, pLow)
    IN IF t = 0 THEN created
       ELSE [created EXCEPT ![t].topoFundo = bar.topoFundo]

\* the accumulators kept after an emission
NextPeriodKeep(d, k, pHigh, pLow) == <<pHigh, pLow>>

\* lines 137-140: the accumulators after bar k has emitted bricks
NextPeriod(d, k, pHigh, pLow) ==
    IF k < Len(d) THEN <<d[k + 1].high, d[k + 1].low>> ELSE <<pHigh, pLow>>

\* the output array kept from the call before
KeptBricks(previous) == previous

\* line 22: const bricks = [], a new array at every call
FreshBricks(previous) == <<>>

\* lines 32-141: the locals after the iteration of bar k
RenkoIteration(loc, d, k, s) ==
    LET bar == BarAt(d, k)
        pHigh == IF bar.high > loc.periodHigh THEN bar.high ELSE loc.periodHigh
        pLow == IF bar.low < loc.periodLow THEN bar.low ELSE loc.periodLow
        st == EmitBricks(loc.currentRefPrice, loc.brickIndex, bar, s)
        np == NextPeriod(d, k, pHigh, pLow)
    IN IF Len(st.created) > 0
       THEN [currentRefPrice |-> st.ref, brickIndex |-> st.idx,
             periodHigh |-> np[1], periodLow |-> np[2],
             bricks |-> loc.bricks \o AssignMarker(AssignWicks(st.created, pHigh, pLow),
                                                   bar, pHigh, pLow)]
       ELSE [currentRefPrice |-> st.ref, brickIndex |-> st.idx,
             periodHigh |-> pHigh, periodLow |-> pLow, bricks |-> loc.bricks]

RECURSIVE RenkoFrom(_, _, _, _)
RenkoFrom(loc, d, k, s) ==
    IF k > Len(d) THEN loc.bricks
    ELSE RenkoFrom(RenkoIteration(loc, d, k, s), d, k + 1, s)

\* lines 19-145: the bricks of a whole call
calculateRenkoBricks(d, s) ==
    IF EarlyReturn(d, s) THEN <<>>
    ELSE RenkoFrom([currentRefPrice |-> InitialRef(d[1].close, s), brickIndex |-> 0,
                    periodHigh |-> d[1].high, periodLow |-> d[1].low,
                    bricks |-> <<>>], d, 1, s)

----------------------------------------------------------------------------
(* filterRelevantSignals *)

\* line 77
HasMarker(item) == item.topoFundo /= <<>>

\* lines 81-82: a brick exposes wickBounds, a bar high/low
ItemHigh(item) == IF "wickBounds" \in DOMAIN item THEN item.wickBounds[2] ELSE item.high
ItemLow(item) == IF "wickBounds" \in DOMAIN item THEN item.wickBounds[1] ELSE item.low

\* the classification with < in place of <=
IsTopCandidateStrict(item) ==
    LET dh == AbsDiff(item.topoFundo[1], ItemHigh(item))
        dl == AbsDiff(item.topoFundo[1], ItemLow(item))
    IN dh /= NaN /\ dl /= NaN /\ dh < dl

\* lines 84-88
IsTopCandidate(item) ==
    Leq(AbsDiff(item.topoFundo[1], ItemHigh(item)),
        AbsDiff(item.topoFundo[1], ItemLow(item)))

\* the marker value itself taken as the anchor
PriceMarker(item) == item.topoFundo[1]

\* line 89
Price(item) == IF IsTopCandidate(item) THEN ItemHigh(item) ELSE ItemLow(item)

\* the pending type written as 'top' whatever the candidate
CandidateTypeAlwaysTop(item) == "top"

\* lines 93, 102, 109, 116, 123: the type written to the pending slot
CandidateType(item) == IF IsTopCandidate(item) THEN "top" ELSE "bottom"

\* the replacement tests with > and < in place of >= and <=
ReplacesTopStrict(price, pendingValue) == price > pendingValue
ReplacesBottomStrict(price, pendingValue) == price < pendingValue

\* lines 101 and 115: does the new candidate take the pending slot
ReplacesTop(price, pendingValue) == Geq(price, pendingValue)
ReplacesBottom(price, pendingValue) == Leq(price, pendingValue)

\* a candidate without marker clearing the pending slot
SkipItemReset(p, valid) == [pending |-> <<>>, valid |-> valid]

\* line 77: the return on a candidate without marker
SkipItem(p, valid) == [pending |-> p, valid |-> valid]

\* lines 75-126: the forEach callback on item number idx
FilterStep(p, valid, item, idx) ==
    IF ~HasMarker(item) THEN SkipItem(p, valid)
    ELSE LET new == [index |-> idx, type |-> CandidateType(item), value |-> Price(item)]
         IN IF p = <<>> THEN [pending |-> <<new>>, valid |-> valid]
            ELSE IF p[1].type = "top"
            THEN IF IsTopCandidate(item)
                 THEN IF ReplacesTop(Price(item), p[1].value)
                      THEN [pending |-> <<new>>, valid |-> valid]
                      ELSE [pending |-> p, valid |-> valid]
                 ELSE [pending |-> <<new>>, valid |-> valid \cup {p[1].index}]
            ELSE IF ~IsTopCandidate(item)
                 THEN IF ReplacesBottom(Price(item), p[1].value)
                      THEN [pending |-> <<new>>, valid |-> valid]
                      ELSE [pending |-> p, valid |-> valid]
                 ELSE [pending |-> <<new>>, valid |-> valid \cup {p[1].index}]

\* the return without the final commit
FinalCommitNone(p, valid) == valid

\* line 129: if (pending) validIndices.add(pending.index)
FinalCommit(p, valid) == IF p /= <<>> THEN valid \cup {p[1].index} ELSE valid

\* lines 71-132: the keep-set of a whole candidate sequence
RECURSIVE FilterFrom(_, _, _, _)
FilterFrom(cands, k, p, valid) ==
    IF k > Len(cands) THEN FinalCommit(p, valid)
    ELSE LET r == FilterStep(p, valid, cands[k], k)
         IN FilterFrom(cands, k + 1, r.pending, r.valid)

filterRelevantSignals(cands) == FilterFrom(cands, 1, <<>>, {})

----------------------------------------------------------------------------
(* areaData and renkoData: the props of the signal added to each point *)

\* Chart.tsx lines 147 and 176: a point outside the keep-set
NoSignal == [topoFundoPoint |-> <<>>, isTopSignal |-> "undefined"]

\* Chart.tsx lines 151-159: the point of a bar in the keep-set (d.topoFundo!)
areaDataPoint(d) ==
    LET distHigh == AbsDiff(d.topoFundo[1], d.high)
        distLow == AbsDiff(d.topoFundo[1], d.low)
        isTop == Leq(distHigh, distLow)
    IN [topoFundoPoint |-> <<IF isTop THEN d.high ELSE d.low>>,
        isTopSignal |-> IF isTop THEN "true" ELSE "false"]

\* Chart.tsx lines 182-183: (b.topoFundo || 0); undefined, 0 and NaN are falsy
OrZero(m) == IF m = <<>> \/ m[1] = NaN THEN 0 ELSE m[1]

\* Chart.tsx lines 179-190: the point of a brick in the keep-set
renkoDataPoint(b) ==
    LET high == b.wickBounds[2]
        low == b.wickBounds[1]
        distHigh == AbsDiff(OrZero(b.topoFundo), high)
        distLow == AbsDiff(OrZero(b.topoFundo), low)
        isTop == Leq(distHigh, distLow)
    IN [topoFundoPoint |-> <<IF isTop THEN high ELSE low>>,
        isTopSignal |-> IF isTop THEN "true" ELSE "false"]

\* Chart.tsx lines 141-160: data.map over the bars
areaDataPoints(d, relevantIndices) ==
    [k \in 1..Len(d) |-> IF k \in relevantIndices THEN areaDataPoint(d[k])
                         ELSE NoSignal]

\* Chart.tsx lines 172-191: bricks.map over the bricks
renkoDataPoints(b, relevantIndices) ==
    [k \in 1..Len(b) |-> IF k \in relevantIndices THEN renkoDataPoint(b[k])
                         ELSE NoSignal]

----------------------------------------------------------------------------
(* parseCSV *)

\* A cell of a row as Papa hands it over: empty, a text that is no number,
\* the text of a number, or absent because the file has no such column
EmptyCell == [kind |-> "empty", val |-> 0]
TextCell == [kind |-> "text", val |-> 0]
NumCell(v) == [kind |-> "num", val |-> v]
NoColumn == [kind |-> "absent", val |-> 0]

\* The date cell: day 0 is a text that is no date, the time is the hour
DateCells == {[day |-> 0, time |-> 9], [day |-> 1, time |-> 9],
              [day |-> 1, time |-> 15], [day |-> 2, time |-> 9]}

\* The cells besides date and close: all as usual, or one of them special
OtherCells ==
    {[high |-> EmptyCell, volume |-> EmptyCell, topos |-> NoColumn],
     [high |-> TextCell, volume |-> EmptyCell, topos |-> NoColumn],
     [high |-> NumCell(9), volume |-> EmptyCell, topos |-> NoColumn],
     [high |-> EmptyCell, volume |-> TextCell, topos |-> NoColumn],
     [high |-> EmptyCell, volume |-> EmptyCell, topos |-> EmptyCell],
     [high |-> EmptyCell, volume |-> EmptyCell, topos |-> TextCell],
     [high |-> EmptyCell, volume |-> EmptyCell, topos |-> NumCell(3)]}

Rows ==
    {[date |-> d, close |-> c, high |-> o.high, volume |-> o.volume,
      topos |-> o.topos] :
        d \in DateCells, c \in {EmptyCell, TextCell, NumCell(5)}, o \in OtherCells}

IsFile(f) == \E n \in 0..MaxRows : f \in [1..n -> Rows]

\* the test !val of lines 6, 93, 106 and the left side of ||
Falsy(cell) == cell.kind \in {"empty", "absent"}

\* lines 5-73: null for a text that is no date; the time part is cut off in
\* line 19 and the day alone makes the isoDate
parseAndNormalizeDate(cell) ==
    IF cell.day = 0 THEN <<>> ELSE <<[isoDate |-> cell.day]>>

\* lines 105-118
parseNum(cell) ==
    IF Falsy(cell) THEN 0
    ELSE IF cell.kind = "text" THEN NaN
    ELSE cell.val

\* line 126: parseInt(String(volume || '0')...)
parseVolume(cell) ==
    IF Falsy(cell) THEN 0
    ELSE IF cell.kind = "text" THEN NaN
    ELSE cell.val

\* a || b of lines 122-124
OrElse(a, b) == IF Falsy(a) THEN b ELSE a

\* lines 83-132: the bar of row number n, <<>> for null. The file has no
\* column for open, low, mm72 and jma. The field row is not in the code: it
\* remembers the row the bar was made from.
RowToBar(row, n) ==
    IF Falsy(row.close) \/ parseAndNormalizeDate(row.date) = <<>> THEN <<>>
    ELSE <<[date |-> parseAndNormalizeDate(row.date)[1].isoDate,
            open |-> parseNum(OrElse(NoColumn, row.close)),
            high |-> parseNum(OrElse(row.high, row.close)),
            low |-> parseNum(OrElse(NoColumn, row.close)),
            close |-> parseNum(row.close),
            volume |-> parseVolume(row.volume),
            mm72 |-> <<>>,
            jma |-> <<>>,
            topoFundo |-> IF row.topos.kind = "absent" THEN <<>>
                          ELSE <<parseNum(row.topos)>>,
            row |-> n]>>

\* line 133: the rows that gave a bar whose close is a number
RECURSIVE ValidBars(_, _)
ValidBars(f, n) ==
    IF n > Len(f) THEN <<>>
    ELSE LET b == RowToBar(f[n], n)
         IN (IF b /= <<>> /\ b[1].close /= NaN THEN b ELSE <<>>) \o ValidBars(f, n + 1)

\* lines 139-143: Array.prototype.sort with timeA - timeB, a stable sort:
\* bars of equal date keep their order
RECURSIVE InsertByDate(_, _)
InsertByDate(sorted, b) ==
    IF sorted = <<>> THEN <<b>>
    ELSE IF sorted[Len(sorted)].date <= b.date THEN Append(sorted, b)
    ELSE Append(InsertByDate(SubSeq(sorted, 1, Len(sorted) - 1), b),
                sorted[Len(sorted)])

RECURSIVE SortByDate(_, _)
SortByDate(bars, n) ==
    IF n = 0 THEN <<>>
    ELSE InsertByDate(SortByDate(bars, n - 1), bars[n])

\* lines 135-145: is the promise rejected, and the value it resolves with
Rejects(f) == Len(ValidBars(f, 1)) = 0
Resolved(f) == SortByDate(ValidBars(f, 1), Len(ValidBars(f, 1)))

----------------------------------------------------------------------------
(* The state machine *)

InitLocals ==
    /\ pc = "memo"
    /\ i = 0 /\ currentRefPrice = 0 /\ brickIndex = 0
    /\ periodHigh = 0 /\ periodLow = 0 /\ bricks = <<>> /\ assigned = {}
    /\ items = <<>> /\ fi = 0 /\ pending = <<>> /\ validIndices = {}
    /\ activeData = <<>>

\* no file is being read
NoParse == file = <<>> /\ promise = "none" /\ parsedData = <<>>

\* App.tsx lines 12-25: the initial values of the App state
AppInitial ==
    /\ appStage = "idle" /\ loadingFile = FALSE /\ error = FALSE
    /\ fileName = ""
    /\ tradeSignal = <<>> /\ loadingSignal = FALSE
    /\ uploads = {} /\ requests = {} /\ nUploads = 0

\* the chart alone: its props are given, the App does nothing
ChartAlone == NoParse /\ AppInitial /\ apiKey = "key" /\ isKeyModalOpen = FALSE

Init ==
    /\ \/ /\ chartType = "renko"
          /\ IsBarSeq(data, RenkoBars)
          /\ brickSize \in BrickSizes
       \/ /\ chartType = "renko"
          /\ data = Example1Bars
          /\ brickSize = 25
       \/ /\ chartType = "renko"
          /\ data = WindowBars
          /\ brickSize = 2
       \/ /\ chartType = "area"
          /\ IsBarSeq(data, AreaBars)
          /\ brickSize = 25
       \/ /\ chartType = "area"
          /\ data = Example2Bars
          /\ brickSize = 25
    /\ InitLocals
    /\ ChartAlone

\* Chart.tsx line 167, part_003 lines 19-30
RenkoCall ==
    /\ pc = "memo" /\ chartType = "renko"
    /\ IF EarlyReturn(data, brickSize)
       THEN /\ pc' = "returned"
            /\ bricks' = <<>>
            /\ UNCHANGED <<i, currentRefPrice, brickIndex, periodHigh, periodLow,
                           assigned>>
       ELSE IF Len(data) = 0
       THEN \* data[0] is undefined: reading .close throws a TypeError
            /\ pc' = "error"
            /\ UNCHANGED renkoVars
       ELSE /\ pc' = "loop"
            /\ bricks' = FreshBricks(bricks)
            /\ currentRefPrice' = InitialRef(data[1].close, brickSize)
            /\ brickIndex' = 0
            /\ periodHigh' = data[1].high
            /\ periodLow' = data[1].low
            /\ assigned' = {}
            /\ i' = 1
    /\ UNCHANGED <<propVars, filterVars, activeData, csvVars, appVars>>

\* part_003 lines 32-141: one iteration of the for loop
RenkoBar ==
    /\ pc = "loop" /\ i <= Len(data)
    /\ LET bar == BarAt(data, i)
           pHigh == IF bar.high > periodHigh THEN bar.high ELSE periodHigh
           pLow == IF bar.low < periodLow THEN bar.low ELSE periodLow
           st == EmitBricks(currentRefPrice, brickIndex, bar, brickSize)
       IN /\ currentRefPrice' = st.ref
          /\ brickIndex' = st.idx
          /\ IF Len(st.created) > 0
             THEN LET t == MarkerTarget(st.created, bar, pHigh, pLow)
                      np == NextPeriod(data, i, pHigh, pLow)
                  IN /\ bricks' = bricks \o AssignMarker(AssignWicks(st.created, pHigh, pLow),
                                                        bar, pHigh, pLow)
                     /\ assigned' = IF t = 0 THEN assigned
                                    ELSE assigned \cup {st.created[t].index}
                     /\ periodHigh' = np[1]
                     /\ periodLow' = np[2]
             ELSE /\ bricks' = bricks
                  /\ assigned' = assigned
                  /\ periodHigh' = pHigh
                  /\ periodLow' = pLow
    /\ i' = i + 1
    /\ UNCHANGED <<pc, propVars, filterVars, activeData, csvVars, appVars>>

\* part_003 line 144
RenkoReturn ==
    /\ pc = "loop" /\ i > Len(data)
    /\ pc' = "returned"
    /\ UNCHANGED <<propVars, renkoVars, filterVars, activeData, csvVars, appVars>>

\* Chart.tsx line 170, lines 71-73: filterRelevantSignals(bricks)
FilterBricks ==
    /\ pc = "returned"
    /\ pc' = "filter"
    /\ items' = bricks
    /\ fi' = 1 /\ pending' = <<>> /\ validIndices' = {}
    /\ UNCHANGED <<propVars, renkoVars, activeData, csvVars, appVars>>

\* Chart.tsx line 139, lines 71-73: filterRelevantSignals(data)
FilterBars ==
    /\ pc = "memo" /\ chartType = "area"
    /\ pc' = "filter"
    /\ items' = data
    /\ fi' = 1 /\ pending' = <<>> /\ validIndices' = {}
    /\ UNCHANGED <<propVars, renkoVars, activeData, csvVars, appVars>>

\* Chart.tsx lines 75-126: one call of the forEach callback
FilterItem ==
    /\ pc = "filter" /\ fi <= Len(items)
    /\ LET r == FilterStep(pending, validIndices, items[fi], fi)
       IN /\ pending' = r.pending
          /\ validIndices' = r.valid
    /\ fi' = fi + 1
    /\ UNCHANGED <<pc, items, propVars, renkoVars, activeData, csvVars, appVars>>

\* Chart.tsx lines 128-131, then the map of lines 141-160 or 172-191
FilterReturn ==
    /\ pc = "filter" /\ fi > Len(items)
    /\ validIndices' = FinalCommit(pending, validIndices)
    /\ activeData' = IF chartType = "renko"
                     THEN renkoDataPoints(items, validIndices')
                     ELSE areaDataPoints(items, validIndices')
    /\ pc' = "done"
    /\ UNCHANGED <<items, fi, pending, propVars, renkoVars, csvVars, appVars>>

\* Chart.tsx lines 387-399: the 'no bricks' panel is shown in renko mode
\* when the recomputed series is empty; its button calls setBrickSize(1) and
\* the memo of lines 164-192 is computed again
RetryOneR ==
    /\ pc = "done" /\ chartType = "renko" /\ Len(bricks) = 0
    /\ brickSize' = 1
    /\ pc' = "memo"
    /\ i' = 0 /\ currentRefPrice' = 0 /\ brickIndex' = 0
    /\ periodHigh' = 0 /\ periodLow' = 0 /\ bricks' = <<>> /\ assigned' = {}
    /\ items' = <<>> /\ fi' = 0 /\ pending' = <<>> /\ validIndices' = {}
    /\ activeData' = <<>>
    /\ UNCHANGED <<data, chartType, csvVars, appVars>>

Next ==
    \/ RenkoCall
    \/ RenkoBar
    \/ RenkoReturn
    \/ FilterBricks
    \/ FilterBars
    \/ FilterItem
    \/ FilterReturn
    \/ RetryOneR

Spec == Init /\ [][Next]_vars

\* Chart.tsx line 364: the select of the step; the memo of lines 164-192 is
\* computed again. What the calls before left behind stays as it is.
SetBrickSize ==
    /\ pc = "done" /\ chartType = "renko"
    /\ \E s \in CallSizes \ {brickSize} : brickSize' = s
    /\ pc' = "memo"
    /\ UNCHANGED <<data, chartType, renkoVars, filterVars, activeData, csvVars, appVars>>

\* Chart.tsx lines 313 and 320: the buttons of the chart type
SetChartType ==
    /\ pc = "done"
    /\ chartType' = IF chartType = "area" THEN "renko" ELSE "area"
    /\ pc' = "memo"
    /\ UNCHANGED <<data, brickSize, renkoVars, filterVars, activeData, csvVars, appVars>>

\* App.tsx line 292: the App hands other bars to the chart
SetData ==
    /\ pc = "done"
    /\ \E d \in CallInputs \ {data} : data' = d
    /\ pc' = "memo"
    /\ UNCHANGED <<brickSize, chartType, renkoVars, filterVars, activeData, csvVars, appVars>>

\* The chart recomputed again and again, on other bars, steps and types
InitCalls ==
    /\ chartType = "area"
    /\ data \in CallInputs
    /\ brickSize \in CallSizes
    /\ InitLocals
    /\ ChartAlone

NextCalls ==
    \/ RenkoCall
    \/ RenkoBar
    \/ RenkoReturn
    \/ FilterBricks
    \/ FilterBars
    \/ FilterItem
    \/ FilterReturn
    \/ SetBrickSize
    \/ SetChartType
    \/ SetData

SpecCalls == InitCalls /\ [][NextCalls]_vars

\* part_002 lines 80-145: the complete callback resolves the promise
ParseResolve ==
    /\ promise = "pending" /\ ~Rejects(file)
    /\ parsedData' = Resolved(file)
    /\ promise' = "resolved"
    /\ UNCHANGED <<file, propVars, pc, renkoVars, filterVars, activeData, appVars>>

\* part_002 lines 135-136: no row gave a bar, the promise is rejected
ParseReject ==
    /\ promise = "pending" /\ Rejects(file)
    /\ promise' = "rejected"
    /\ UNCHANGED <<file, parsedData, propVars, pc, renkoVars, filterVars, activeData,
                   appVars>>

\* parseCSV on a file
InitCSV ==
    /\ IsFile(file)
    /\ promise = "pending" /\ parsedData = <<>>
    /\ data = <<>> /\ brickSize = 25 /\ chartType = "area"
    /\ InitLocals
    /\ AppInitial /\ apiKey = "key" /\ isKeyModalOpen = FALSE

NextCSV ==
    \/ ParseResolve
    \/ ParseReject

SpecCSV == InitCSV /\ [][NextCSV]_vars

\* The files of the uploads: one bar, two bars in reverse order, no bar
UploadFiles ==
    {[name |-> "a.csv",
      rows |-> <<[date |-> [day |-> 1, time |-> 9], close |-> NumCell(5),
                  high |-> NumCell(9), volume |-> EmptyCell, topos |-> NoColumn]>>],
     [name |-> "b.csv",
      rows |-> <<[date |-> [day |-> 2, time |-> 9], close |-> NumCell(5),
                  high |-> EmptyCell, volume |-> EmptyCell, topos |-> NumCell(3)],
                 [date |-> [day |-> 1, time |-> 9], close |-> NumCell(5),
                  high |-> EmptyCell, volume |-> EmptyCell, topos |-> NoColumn]>>],
     [name |-> "c.csv",
      rows |-> <<[date |-> [day |-> 1, time |-> 9], close |-> TextCell,
                  high |-> EmptyCell, volume |-> EmptyCell, topos |-> NoColumn]>>]}

\* the stage kept as it is when the file could not be read
CatchStageKept(stage) == stage

\* App.tsx line 91: setAppStage('idle') in the catch block
CatchStage(stage) == "idle"

\* App.tsx lines 125 and 187: the buttons that open the key modal
OpenKeyModal ==
    /\ ~isKeyModalOpen
    /\ isKeyModalOpen' = TRUE
    /\ UNCHANGED <<data, appStage, loadingFile, error, fileName, apiKey, tradeSignal,
                   loadingSignal, uploads, requests, nUploads>>
    /\ UNCHANGED <<brickSize, chartType, pc, renkoVars, filterVars, activeData, csvVars>>

\* App.tsx lines 311 and 370: the modal is closed, which needs a key
CloseKeyModal ==
    /\ isKeyModalOpen /\ apiKey /= ""
    /\ isKeyModalOpen' = FALSE
    /\ UNCHANGED <<data, appStage, loadingFile, error, fileName, apiKey, tradeSignal,
                   loadingSignal, uploads, requests, nUploads>>
    /\ UNCHANGED <<brickSize, chartType, pc, renkoVars, filterVars, activeData, csvVars>>

\* App.tsx lines 44-50 and 341: handleSaveKey, a button of the modal, with
\* the text of the input; an empty text does nothing
handleSaveKey ==
    /\ isKeyModalOpen
    /\ \E tempKey \in {"", "key"} :
          /\ tempKey /= ""
          /\ apiKey' = tempKey
          /\ isKeyModalOpen' = FALSE
    /\ UNCHANGED <<data, appStage, loadingFile, error, fileName, tradeSignal,
                   loadingSignal, uploads, requests, nUploads>>
    /\ UNCHANGED <<brickSize, chartType, pc, renkoVars, filterVars, activeData, csvVars>>

\* App.tsx lines 52-56 and 346-352: handleRemoveKey, a button of the modal
\* shown when a key is set
handleRemoveKey ==
    /\ isKeyModalOpen /\ apiKey /= ""
    /\ apiKey' = ""
    /\ UNCHANGED <<data, appStage, loadingFile, error, fileName, isKeyModalOpen,
                   tradeSignal, loadingSignal, uploads, requests, nUploads>>
    /\ UNCHANGED <<brickSize, chartType, pc, renkoVars, filterVars, activeData, csvVars>>

\* App.tsx lines 58-74: handleFileUpload on a chosen file, up to the await.
\* The handler is taken as callable whatever the key; the file input of
\* line 156 is disabled while no key is set.
handleFileUpload ==
    /\ nUploads < MaxUploads
    /\ nUploads' = nUploads + 1
    /\ \E f \in UploadFiles :
          IF apiKey = ""
          THEN /\ isKeyModalOpen' = TRUE
               /\ error' = TRUE
               /\ UNCHANGED <<loadingFile, fileName, tradeSignal, uploads>>
          ELSE /\ loadingFile' = TRUE
               /\ error' = FALSE
               /\ fileName' = f.name
               /\ tradeSignal' = <<>>
               /\ uploads' = uploads \cup {[id |-> nUploads + 1, file |-> f]}
               /\ UNCHANGED isKeyModalOpen
    /\ UNCHANGED <<data, appStage, apiKey, loadingSignal, requests>>
    /\ UNCHANGED <<brickSize, chartType, pc, renkoVars, filterVars, activeData, csvVars>>

\* App.tsx lines 74-86 and 92-95: parseCSV has resolved
UploadResolved ==
    /\ \E u \in uploads :
          /\ ~Rejects(u.file.rows)
          /\ uploads' = uploads \ {u}
          /\ data' = Resolved(u.file.rows)
          /\ requests' = requests \cup {[id |-> u.id, from |-> Resolved(u.file.rows)]}
    /\ appStage' = "dashboard"
    /\ loadingSignal' = TRUE
    /\ loadingFile' = FALSE
    /\ UNCHANGED <<error, fileName, apiKey, isKeyModalOpen, tradeSignal, nUploads>>
    /\ UNCHANGED <<brickSize, chartType, pc, renkoVars, filterVars, activeData, csvVars>>

\* App.tsx lines 88-95: parseCSV has rejected
UploadRejected ==
    /\ \E u \in uploads :
          /\ Rejects(u.file.rows)
          /\ uploads' = uploads \ {u}
    /\ error' = TRUE
    /\ data' = <<>>
    /\ appStage' = CatchStage(appStage)
    /\ loadingFile' = FALSE
    /\ UNCHANGED <<fileName, apiKey, isKeyModalOpen, tradeSignal, loadingSignal,
                   requests, nUploads>>
    /\ UNCHANGED <<brickSize, chartType, pc, renkoVars, filterVars, activeData, csvVars>>

\* App.tsx lines 83-86: generateTradeSignal has answered, with a signal or
\* with null (geminiService.ts lines 189-196)
SignalSettled ==
    /\ \E r \in requests :
          /\ requests' = requests \ {r}
          /\ \E signal \in {<<>>, <<[from |-> r.from]>>} : tradeSignal' = signal
    /\ loadingSignal' = FALSE
    /\ UNCHANGED <<data, appStage, loadingFile, error, fileName, apiKey,
                   isKeyModalOpen, uploads, nUploads>>
    /\ UNCHANGED <<brickSize, chartType, pc, renkoVars, filterVars, activeData, csvVars>>

\* App.tsx lines 12-42: the App after mounting, with or without a stored key
InitApp ==
    /\ AppInitial
    /\ apiKey \in {"", "key"}
    /\ isKeyModalOpen = (apiKey = "")
    /\ data = <<>> /\ brickSize = 25 /\ chartType = "area"
    /\ InitLocals
    /\ NoParse

NextApp ==
    \/ OpenKeyModal
    \/ CloseKeyModal
    \/ handleSaveKey
    \/ handleRemoveKey
    \/ handleFileUpload
    \/ UploadResolved
    \/ UploadRejected
    \/ SignalSettled

SpecApp == InitApp /\ [][NextApp]_vars

\* The area chart over bars some of which have a NaN high or low, and the
\* renko chart over bars some of which have a NaN marker
InitNaN ==
    /\ \/ /\ chartType = "area"
          /\ IsBarSeq(data, AreaBars \cup MalformedBars)
          /\ brickSize = 25
       \/ /\ chartType = "renko"
          /\ IsBarSeq(data, NaNMarkerBars)
          /\ brickSize \in {1, 2}
    /\ InitLocals
    /\ ChartAlone

NextNaN ==
    \/ RenkoCall
    \/ RenkoBar
    \/ RenkoReturn
    \/ FilterBricks
    \/ FilterBars
    \/ FilterItem
    \/ FilterReturn

SpecNaN == InitNaN /\ [][NextNaN]_vars

----------------------------------------------------------------------------
(* Vocabulary of the properties, stated on the data and not through the   *)
(* operators of the model                                                  *)

MarkerBearing(it) == it.topoFundo /= <<>>
CandHigh(it) == IF "wickBounds" \in DOMAIN it THEN it.wickBounds[2] ELSE it.high
CandLow(it) == IF "wickBounds" \in DOMAIN it THEN it.wickBounds[1] ELSE it.low
DistHigh(it) == IF it.topoFundo[1] >= CandHigh(it)
                THEN it.topoFundo[1] - CandHigh(it) ELSE CandHigh(it) - it.topoFundo[1]
DistLow(it) == IF it.topoFundo[1] >= CandLow(it)
               THEN it.topoFundo[1] - CandLow(it) ELSE CandLow(it) - it.topoFundo[1]
ClassTop(it) == DistHigh(it) <= DistLow(it)
Anchor(it) == IF ClassTop(it) THEN CandHigh(it) ELSE CandLow(it)

\* the marker-bearing positions of the candidate sequence
MarkerPositions == {k \in 1..Len(items) : MarkerBearing(items[k])}

\* the bricks appended by the step from the current state to the next
NewCount == Len(bricks') - Len(bricks)
NewBrick(j) == bricks'[Len(bricks) + j]

----------------------------------------------------------------------------
(* C1: reading the keep-set of filterRelevantSignals in candidate order,   *)
(* no two consecutive kept candidates have the same top/bottom             *)
(* classification (top iff |marker - high| <= |marker - low|).             *)
C1_Alternation ==
    \A a \in validIndices : \A b \in validIndices :
        (a < b /\ ~ \E c \in validIndices : a < c /\ c < b)
            => ClassTop(items[a]) /= ClassTop(items[b])

\* several candidates kept, one marker-bearing candidate dropped
C1_Witness ==
    /\ pc = "done"
    /\ Cardinality(validIndices) >= 2
    /\ \E k \in MarkerPositions : k \notin validIndices

(* C2: every brick's open and close lie on the grid R0 + k*stepSize with   *)
(* R0 = floor(first close / stepSize) * stepSize, |close - open| is the    *)
(* step, and each brick opens where the brick before it closed.            *)
C2_Grid ==
    Len(bricks) > 0 =>
        LET R0 == brickSize * (data[1].close \div brickSize)
        IN /\ \A k \in 1..Len(bricks) :
                 /\ (bricks[k].open - R0) % brickSize = 0
                 /\ (bricks[k].close - R0) % brickSize = 0
                 /\ \/ bricks[k].close - bricks[k].open = brickSize
                    \/ bricks[k].open - bricks[k].close = brickSize
           /\ \A k \in 1..(Len(bricks) - 1) : bricks[k].close = bricks[k + 1].open

\* a first close off the grid, then a reversal between bricks of two bars
C2_Witness ==
    /\ pc = "returned"
    /\ Len(data) > 0 /\ brickSize > 0 /\ data[1].close % brickSize /= 0
    /\ \E k \in 1..(Len(bricks) - 1) :
          /\ bricks[k].type = "up" /\ bricks[k + 1].type = "down"
          /\ bricks[k].date /= bricks[k + 1].date

(* C3: the wick of every brick contains its body: wickBounds[0] <=         *)
(* bounds[0] and wickBounds[1] >= bounds[1].                               *)
C3_WickContainsBody ==
    \A k \in 1..Len(bricks) :
        /\ bricks[k].wickBounds[1] <= bricks[k].bounds[1]
        /\ bricks[k].wickBounds[2] >= bricks[k].bounds[2]

\* a brick all of whose bars so far had their high below the brick's body top
\* and their low above its body bottom
C3_Witness ==
    \E k \in 1..Len(bricks) :
        \A d \in 1..bricks[k].date :
            /\ data[d].high < bricks[k].bounds[2]
            /\ data[d].low > bricks[k].bounds[1]

(* C4: when the filter returns, the candidate in the pending slot is in    *)
(* the keep-set, and the keep-set is non-empty exactly when some candidate *)
(* carries a marker.                                                       *)
C4_FinalPendingCommitted ==
    pc = "done" =>
        /\ pending /= <<>> => pending[1].index \in validIndices
        /\ validIndices /= {} <=> MarkerPositions /= {}

\* the pending candidate is the only kept one among several marker-bearing
C4_Witness ==
    /\ pc = "done"
    /\ pending /= <<>>
    /\ validIndices = {pending[1].index}
    /\ Cardinality(MarkerPositions) >= 2

(* C5 as stated: the last marker-bearing candidate of the sequence is in   *)
(* the keep-set.                                                           *)
C5_LastMarkerKept ==
    pc = "done" =>
        \A k \in MarkerPositions :
            (\A j \in MarkerPositions : j <= k) => k \in validIndices

\* the candidates of the final run before k: marker-bearing, classified as
\* k, with no candidate of the other classification between them and k
FinalRunBefore(k) ==
    {j \in MarkerPositions :
        /\ j < k
        /\ \A m \in MarkerPositions :
              (j <= m /\ m < k) => ClassTop(items[m]) = ClassTop(items[k])}

(* C5 amended: the last marker-bearing candidate is in the keep-set        *)
(* exactly when no earlier candidate of its final run of equal             *)
(* classification has a strictly higher (tops) or strictly lower (bottoms) *)
(* anchor.                                                                 *)
C5_LastMarkerKeptIffExtreme ==
    pc = "done" =>
        \A k \in MarkerPositions :
            (\A j \in MarkerPositions : j <= k) =>
                (k \in validIndices <=>
                    \A j \in FinalRunBefore(k) :
                        IF ClassTop(items[k])
                        THEN Anchor(items[k]) >= Anchor(items[j])
                        ELSE Anchor(items[k]) <= Anchor(items[j]))

\* the last marker-bearing candidate ties with an earlier one of its run and
\* is kept
C5_Witness ==
    /\ pc = "done"
    /\ \E k \in MarkerPositions :
          /\ \A j \in MarkerPositions : j <= k
          /\ k \in validIndices
          /\ \E j \in FinalRunBefore(k) : Anchor(items[j]) = Anchor(items[k])

(* C6: the brick at position k (0-based) of the output has index k.        *)
C6_DenseIndex ==
    \A k \in 1..Len(bricks) : bricks[k].index = k - 1

\* bricks of two bars and of both directions
C6_Witness ==
    /\ pc = "returned"
    /\ Len(bricks) >= 3
    /\ \E a \in 1..Len(bricks) : \E b \in 1..Len(bricks) :
          /\ bricks[a].type = "up" /\ bricks[b].type = "down"
          /\ bricks[a].date /= bricks[b].date

(* C7: with no bars, or with stepSize <= 0, calculateRenkoBricks returns   *)
(* the empty sequence and raises no error.                                 *)
C7_EmptyResult ==
    (chartType = "renko" /\ pc /= "memo" /\ (Len(data) = 0 \/ brickSize <= 0))
        => pc \notin {"error", "loop"} /\ bricks = <<>>

\* bars with a step of 0
C7_Witness ==
    /\ pc = "returned"
    /\ Len(data) > 0 /\ brickSize = 0
    /\ bricks = <<>>

\* Example 1: closes 100, 100, 126, 150, 151 with step 25
C8_Example ==
    (pc = "returned" /\ brickSize = 25
        /\ [k \in 1..Len(data) |-> data[k].close] = <<100, 100, 126, 150, 151>>)
        => /\ Len(bricks) = 2
           /\ bricks[1].open = 100 /\ bricks[1].close = 125 /\ bricks[1].index = 0
           /\ bricks[2].open = 125 /\ bricks[2].close = 150 /\ bricks[2].index = 1
           /\ bricks[1].type = "up" /\ bricks[2].type = "up"

\* one bar with reference R, step s and close c
C8_Bar ==
    (pc = "loop" /\ i <= Len(data)) =>
        LET R == currentRefPrice
            s == brickSize
            c == data[i].close
        IN /\ c >= R + s =>
                /\ NewCount = (c - R) \div s
                /\ \A j \in 1..NewCount :
                      /\ NewBrick(j).type = "up"
                      /\ NewBrick(j).open = R + (j - 1) * s
                      /\ NewBrick(j).close = R + j * s
           /\ c <= R - s =>
                /\ NewCount = (R - c) \div s
                /\ \A j \in 1..NewCount :
                      /\ NewBrick(j).type = "down"
                      /\ NewBrick(j).open = R - (j - 1) * s
                      /\ NewBrick(j).close = R - j * s
           /\ (R - s < c /\ c < R + s) =>
                /\ NewCount = 0
                /\ currentRefPrice' = R

(* C8: a bar with close >= R + s emits floor((close - R) / s) up bricks    *)
(* stepping up from R, a bar with close <= R - s emits                     *)
(* floor((R - close) / s) down bricks stepping down from R, any other bar  *)
(* emits none and leaves R; Example 1 gives the bricks [100,125] and       *)
(* [125,150] with indices 0 and 1.                                         *)
C8_Emission == []C8_Example /\ [][C8_Bar]_vars

\* a bar has just emitted two down bricks
C8_Witness ==
    /\ pc = "loop" /\ i > 1
    /\ \E k \in 1..(Len(bricks) - 1) :
          /\ bricks[k].date = i - 1 /\ bricks[k + 1].date = i - 1
          /\ bricks[k].type = "down"

(* C9: the pending slot holds the classification top iff                   *)
(* |marker - high| <= |marker - low| of its candidate, and as value the    *)
(* candidate's high (top) or low (bottom), where high/low are the          *)
(* wickBounds of a brick and the high/low fields of a bar.                 *)
C9_PendingIsAnchor ==
    pending /= <<>> =>
        LET it == items[pending[1].index]
        IN /\ MarkerBearing(it)
           /\ pending[1].type = "top" <=> DistHigh(it) <= DistLow(it)
           /\ pending[1].type = "bottom" <=> ~(DistHigh(it) <= DistLow(it))
           /\ pending[1].value = IF DistHigh(it) <= DistLow(it)
                                 THEN CandHigh(it) ELSE CandLow(it)

\* a pending top by a tie whose anchor differs from its marker, and a
\* pending brick whose wick differs from its body
C9_Witness ==
    /\ pending /= <<>>
    /\ LET it == items[pending[1].index]
       IN \/ /\ DistHigh(it) = DistLow(it)
             /\ pending[1].value /= it.topoFundo[1]
          \/ /\ "wickBounds" \in DOMAIN it
             /\ it.wickBounds[2] /= it.high
             /\ pending[1].type = "top"

\* a marker-bearing candidate classified as the pending one
C10_Conflict ==
    /\ pc = "filter" /\ fi <= Len(items)
    /\ pending /= <<>>
    /\ MarkerBearing(items[fi])
    /\ (pending[1].type = "top") = ClassTop(items[fi])

C10_Step ==
    C10_Conflict =>
        /\ validIndices' = validIndices
        /\ IF \/ ClassTop(items[fi]) /\ Anchor(items[fi]) >= pending[1].value
              \/ ~ClassTop(items[fi]) /\ Anchor(items[fi]) <= pending[1].value
           THEN pending' = <<[index |-> fi, type |-> pending[1].type,
                              value |-> Anchor(items[fi])]>>
           ELSE pending' = pending

(* C10: a candidate classified as the pending one adds nothing to the      *)
(* keep-set and takes the pending slot iff its anchor is >= the pending    *)
(* anchor (tops) or <= it (bottoms), also when the anchors are equal;      *)
(* otherwise the slot is unchanged.                                        *)
C10_SameTypeConflict == [][C10_Step]_vars

\* a later bottom took the slot from an earlier bottom of equal anchor
C10_Witness ==
    /\ pc = "filter" /\ fi > 2
    /\ pending /= <<>>
    /\ pending[1].index = fi - 1
    /\ pending[1].type = "bottom"
    /\ validIndices = {}
    /\ \E j \in MarkerPositions : j < fi - 1 /\ Anchor(items[j]) = pending[1].value

----------------------------------------------------------------------------
(* Vocabulary of the properties of the second group                        *)

\* a finite set of integers in increasing order
RECURSIVE Ascending(_)
Ascending(S) ==
    IF S = {} THEN <<>>
    ELSE LET m == CHOOSE x \in S : \A y \in S : x <= y
         IN <<m>> \o Ascending(S \ {m})

\* the accumulators as lines 36-37 leave them for the bar about to be processed
HighWithBar == IF data[i].high > periodHigh THEN data[i].high ELSE periodHigh
LowWithBar == IF data[i].low < periodLow THEN data[i].low ELSE periodLow

\* the new brick with the highest body top, with the lowest body bottom
IsHighestNew(j) == \A m \in 1..NewCount : NewBrick(m).bounds[2] <= NewBrick(j).bounds[2]
IsLowestNew(j) == \A m \in 1..NewCount : NewBrick(m).bounds[1] >= NewBrick(j).bounds[1]

\* the bars that have emitted bricks, and the window of bar k: the bars after
\* the last emitting bar before k, up to k
EmittingBars == {bricks[j].date : j \in 1..Len(bricks)}
WindowOf(k) ==
    LET emitting == EmittingBars
    IN {d \in 1..k : \A e \in emitting : e < k => e < d}
WindowHigh(k) ==
    LET window == WindowOf(k)
    IN CHOOSE h \in {data[d].high : d \in window} :
           \A d \in window : data[d].high <= h
WindowLow(k) ==
    LET window == WindowOf(k)
    IN CHOOSE l \in {data[d].low : d \in window} :
           \A d \in window : data[d].low >= l

\* the bricks of bar d in the output
BricksOf(d) == {j \in 1..Len(bricks) : bricks[j].date = d}

----------------------------------------------------------------------------
C11_SubsequenceResult ==
    pc = "done" =>
        LET ms == Ascending(MarkerPositions)
            sub == [j \in 1..Len(ms) |-> items[ms[j]]]
        IN /\ validIndices = {ms[j] : j \in filterRelevantSignals(sub)}
           /\ MarkerPositions = {} => validIndices = {}

C11_SkipStep ==
    (pc = "filter" /\ fi <= Len(items) /\ ~MarkerBearing(items[fi])) =>
        /\ pending' = pending
        /\ validIndices' = validIndices

(* C11: a candidate without marker is never in the keep-set and leaves the *)
(* pending slot and the keep-set as they are; the result equals the result *)
(* on the subsequence of the marker-bearing candidates with the indices    *)
(* mapped back, and is empty when no candidate carries a marker.           *)
C11_MarkerlessSkipped ==
    /\ [](validIndices \subseteq MarkerPositions)
    /\ []C11_SubsequenceResult
    /\ [][C11_SkipStep]_vars

\* a candidate without marker between two marker-bearing candidates of one
\* classification, the later of which is kept
C11_Witness ==
    /\ pc = "done"
    /\ \E a \in MarkerPositions : \E b \in validIndices : \E k \in 1..Len(items) :
          /\ a < k /\ k < b
          /\ ~MarkerBearing(items[k])
          /\ ClassTop(items[a]) = ClassTop(items[b])
          /\ a \notin validIndices

C12_Step ==
    (pc = "loop" /\ i <= Len(data)) =>
        \A j \in 1..NewCount :
            LET b == NewBrick(j)
            IN /\ b.wickBounds[2] =
                    IF IsHighestNew(j) /\ HighWithBar > b.bounds[2]
                    THEN HighWithBar ELSE b.bounds[2]
               /\ b.wickBounds[1] =
                    IF IsLowestNew(j) /\ LowWithBar < b.bounds[1]
                    THEN LowWithBar ELSE b.bounds[1]

(* C12: among the bricks of one bar, the brick with the highest body top   *)
(* gets wickBounds[1] = max(periodHigh, body top), the brick with the      *)
(* lowest body bottom gets wickBounds[0] = min(periodLow, body bottom),    *)
(* and every other wick bound of the batch equals the body bound.          *)
C12_WickAssignment == [][C12_Step]_vars

\* a batch of three bricks: the top one has a wick above its body, the
\* bottom one a wick below its body, the middle one none
C12_Witness ==
    /\ pc = "loop" /\ i > 1
    /\ \E a \in BricksOf(i - 1) : \E m \in BricksOf(i - 1) : \E z \in BricksOf(i - 1) :
          /\ bricks[a].bounds[2] < bricks[m].bounds[2]
          /\ bricks[m].bounds[2] < bricks[z].bounds[2]
          /\ bricks[z].wickBounds[2] > bricks[z].bounds[2]
          /\ bricks[a].wickBounds[1] < bricks[a].bounds[1]
          /\ bricks[m].wickBounds = bricks[m].bounds

(* C13: when bar i is processed, periodHigh is the maximum high and        *)
(* periodLow the minimum low over the bars e+1..i, e the last bar before i *)
(* that emitted bricks (all bars up to i if none did); the wicks of the    *)
(* bricks of bar i are taken from these values.                            *)
C13_PeriodWindow ==
    /\ (pc = "loop" /\ i <= Len(data)) =>
          /\ HighWithBar = WindowHigh(i)
          /\ LowWithBar = WindowLow(i)
    /\ \A j \in 1..Len(bricks) :
          LET d == bricks[j].date
              windowHigh == WindowHigh(d)
              windowLow == WindowLow(d)
          IN (pc = "loop" => d < i) =>
              /\ (\A m \in BricksOf(d) : bricks[m].bounds[2] <= bricks[j].bounds[2])
                    => bricks[j].wickBounds[2] =
                          IF windowHigh > bricks[j].bounds[2]
                          THEN windowHigh ELSE bricks[j].bounds[2]
              /\ (\A m \in BricksOf(d) : bricks[m].bounds[1] >= bricks[j].bounds[1])
                    => bricks[j].wickBounds[1] =
                          IF windowLow < bricks[j].bounds[1]
                          THEN windowLow ELSE bricks[j].bounds[1]

\* a brick of bar k whose wick top is the high of bar k-1, which emitted no
\* brick, while an earlier emitting bar and a bar before it had a higher high
C13_Witness ==
    \E j \in 1..Len(bricks) :
        LET k == bricks[j].date
        IN /\ k > 2
           /\ (k - 1) \notin EmittingBars
           /\ \E e \in EmittingBars : e < k - 1
           /\ bricks[j].wickBounds[2] = data[k - 1].high
           /\ data[k - 1].high > data[k].high
           /\ \E d \in 1..(k - 2) : data[d].high > data[k - 1].high

(* C14: all bricks emitted from one bar have the same direction.           *)
C14_OneDirectionPerBar ==
    \A a \in 1..Len(bricks) : \A b \in 1..Len(bricks) :
        bricks[a].date = bricks[b].date => bricks[a].type = bricks[b].type

\* two down bricks of one bar after up bricks of an earlier bar
C14_Witness ==
    \E a \in 1..Len(bricks) : \E b \in 1..Len(bricks) : \E c \in 1..Len(bricks) :
        /\ a < b /\ bricks[a].date = bricks[b].date /\ bricks[a].type = "down"
        /\ bricks[c].type = "up"

(* C15: every brick emitted from a bar with a marker carries a topoFundo   *)
(* equal to the bar's marker, and a brick emitted from a bar without       *)
(* marker carries none.                                                    *)
C15_MarkerOnEveryBrick ==
    \A k \in 1..Len(bricks) : bricks[k].topoFundo = data[bricks[k].date].topoFundo

\* two bricks of a bar with a marker, and a brick of a bar without
C15_Witness ==
    /\ \E a \in 1..Len(bricks) : \E b \in 1..Len(bricks) :
          /\ a /= b /\ bricks[a].date = bricks[b].date
          /\ bricks[a].topoFundo /= <<>> /\ bricks[b].topoFundo /= <<>>
    /\ \E c \in 1..Len(bricks) : bricks[c].topoFundo = <<>>

(* C16: of the bricks of one bar with a marker only one carries the        *)
(* marker, so the filter run over the bricks sees at most one              *)
(* marker-bearing candidate per source bar.                                *)
C16_OneMarkedBrickPerBar ==
    /\ \A d \in 1..Len(data) :
          Cardinality({j \in BricksOf(d) : MarkerBearing(bricks[j])}) <= 1
    /\ pc \in {"filter", "done"} =>
          \A a \in MarkerPositions : \A b \in MarkerPositions :
              items[a].date = items[b].date => a = b

\* the bar about to be processed has a non-zero marker at equal distance
\* from the accumulated high and the accumulated low, and emits bricks
C17_Tie ==
    /\ pc = "loop" /\ i <= Len(data)
    /\ NewCount > 0
    /\ data[i].topoFundo /= <<>>
    /\ data[i].topoFundo[1] /= 0
    /\ LET m == data[i].topoFundo[1]
           dh == IF m >= HighWithBar THEN m - HighWithBar ELSE HighWithBar - m
           dl == IF m >= LowWithBar THEN m - LowWithBar ELSE LowWithBar - m
       IN dh = dl

C17_TieHighStep ==
    C17_Tie =>
        \E j \in 1..NewCount :
            IsHighestNew(j) /\ assigned' = assigned \cup {NewBrick(j).index}

C17_TieLowStep ==
    C17_Tie =>
        \E j \in 1..NewCount :
            IsLowestNew(j) /\ assigned' = assigned \cup {NewBrick(j).index}

NoBricksShown == pc = "done" /\ chartType = "renko" /\ Len(bricks) = 0

\* every close lies strictly within one step of the initial reference
AllClosesInFirstCell ==
    LET R0 == brickSize * (data[1].close \div brickSize)
    IN \A k \in 1..Len(data) :
          R0 - brickSize < data[k].close /\ data[k].close < R0 + brickSize

C18_EmptyIff ==
    (chartType = "renko" /\ pc \in {"returned", "filter", "done"}
        /\ Len(data) > 0 /\ brickSize > 0)
        => /\ bricks = <<>> <=> AllClosesInFirstCell
           /\ pc = "done" => (AllClosesInFirstCell <=> ENABLED RetryOneR)

C18_RetryStep == (NoBricksShown /\ pc' = "memo") => brickSize' = 1

(* C18: for bars and a step s > 0 the result is empty exactly when every   *)
(* close c satisfies R0 - s < c < R0 + s; the chart then shows the 'no     *)
(* bricks' panel, whose retry sets the step to 1.                          *)
C18_DegenerateOutput == []C18_EmptyIff /\ [][C18_RetryStep]_vars

\* the panel is shown for bars whose closes differ and a step above 1
C18_Witness ==
    /\ NoBricksShown
    /\ brickSize > 1
    /\ \E a \in 1..Len(data) : \E b \in 1..Len(data) : data[a].close /= data[b].close

(* C19: a guard bounds the number of bricks one bar emits, whatever the    *)
(* ratio |close - reference| / stepSize; stated for a guard of 2 bricks    *)
(* per bar (a close G + 1 steps from the reference exceeds a guard G).     *)
C19_GuardedEmission ==
    LET maxBricksPerBar == 2
    IN \A d \in 1..Len(data) : Cardinality(BricksOf(d)) <= maxBricksPerBar

\* a marker-bearing candidate whose high or low is NaN
Malformed(it) == MarkerBearing(it) /\ (CandHigh(it) = NaN \/ CandLow(it) = NaN)

\* the candidates with the marker of the malformed ones removed
WithoutMalformed(cands) ==
    [k \in 1..Len(cands) |->
        IF Malformed(cands[k]) THEN [cands[k] EXCEPT !.topoFundo = <<>>]
        ELSE cands[k]]

(* C20: a marker-bearing candidate whose high or low is NaN never becomes  *)
(* pending, never enters the keep-set, and the keep-set is the one the     *)
(* sequence gives when that candidate has no marker.                       *)
C20_MalformedSkipped ==
    /\ pending /= <<>> => ~Malformed(items[pending[1].index])
    /\ \A k \in validIndices : ~Malformed(items[k])
    /\ pc = "done" => validIndices = filterRelevantSignals(WithoutMalformed(items))

----------------------------------------------------------------------------
(* Vocabulary of the properties of the third group                         *)

\* the source bar of brick k of the output, and of the brick before it
SourceOf(k) == bricks[k].date
PrevSourceOf(k) == IF k = 1 THEN 1 ELSE bricks[k - 1].date

\* the close of bar d lies strictly within one step of the price r
Within(d, r) == r - brickSize < data[d].close /\ data[d].close < r + brickSize

\* bar d is the first bar from the source of the brick before k whose close
\* is a step or more away from the open of brick k, on the side of brick k
Triggers(d, k) ==
    /\ d \in 1..Len(data)
    /\ PrevSourceOf(k) <= d
    /\ \A e \in PrevSourceOf(k)..(d - 1) : Within(e, bricks[k].open)
    /\ IF bricks[k].close > bricks[k].open
       THEN data[d].close >= bricks[k].close
       ELSE data[d].close <= bricks[k].close

(* C24: every brick carries the date, mm72 and jma of the bar whose close  *)
(* triggered its emission, and the source bars of successive bricks are in *)
(* non-decreasing input order.                                             *)
C24_IndicatorsOfSourceBar ==
    /\ \A k \in 1..Len(bricks) :
          \E d \in 1..Len(data) :
              /\ Triggers(d, k)
              /\ bricks[k].date = data[d].date
              /\ bricks[k].mm72 = data[d].mm72
              /\ bricks[k].jma = data[d].jma
    /\ \A k \in 1..(Len(bricks) - 1) : SourceOf(k) <= SourceOf(k + 1)

\* a down brick of a bar with a jma, after an up brick of a bar without
C24_Witness ==
    \E a \in 1..Len(bricks) : \E b \in 1..Len(bricks) :
        /\ a < b
        /\ bricks[a].type = "up" /\ bricks[a].jma = <<>>
        /\ bricks[b].type = "down" /\ bricks[b].jma /= <<>>

\* the run of k: the marker-bearing candidates joined to k by marker-bearing
\* candidates that are all classified as k is
RunOf(k) ==
    {j \in MarkerPositions :
        \A m \in MarkerPositions :
            ((j <= m /\ m <= k) \/ (k <= m /\ m <= j))
                => ClassTop(items[m]) = ClassTop(items[k])}

\* k is the last candidate of its run with the highest anchor (a run of
\* tops) or with the lowest anchor (a run of bottoms)
LastExtremeOfRun(k) ==
    LET top == ClassTop(items[k])
        anchor == Anchor(items[k])
    IN \A j \in RunOf(k) :
           IF top
           THEN Anchor(items[j]) < anchor \/ (Anchor(items[j]) = anchor /\ j <= k)
           ELSE Anchor(items[j]) > anchor \/ (Anchor(items[j]) = anchor /\ j <= k)

(* C25: the keep-set holds exactly one index per maximal run of            *)
(* consecutive marker-bearing candidates of one classification, the last   *)
(* candidate with the highest anchor of a run of tops or with the lowest   *)
(* anchor of a run of bottoms (each run has exactly one such candidate);   *)
(* top(10), top(12), bottom(5), top(9) gives the second, third and fourth  *)
(* candidate.                                                              *)
C25_OnePerRun ==
    pc = "done" =>
        /\ validIndices = {k \in MarkerPositions : LastExtremeOfRun(k)}
        /\ items = Example2Bars => validIndices = {2, 3, 4}

\* a run of two tops whose first has the higher anchor and is kept, then a
\* bottom
C25_Witness ==
    /\ pc = "done"
    /\ \E a \in MarkerPositions : \E b \in MarkerPositions : \E c \in MarkerPositions :
          /\ a < b /\ b < c
          /\ ClassTop(items[a]) /\ ClassTop(items[b]) /\ ~ClassTop(items[c])
          /\ Anchor(items[a]) > Anchor(items[b])
          /\ validIndices = {a, c}

\* the numbers of up and of down bricks emitted so far
UpCount == Cardinality({k \in 1..Len(bricks) : bricks[k].close > bricks[k].open})
DownCount == Cardinality({k \in 1..Len(bricks) : bricks[k].close < bricks[k].open})

(* C27: after a bar has been processed (step s > 0) the reference price R  *)
(* satisfies R - s < close < R + s for that bar's close, and R - R0 is s   *)
(* times the number of up bricks minus the number of down bricks emitted   *)
(* so far.                                                                 *)
C27_ReferenceTracksClose ==
    (pc = "loop" /\ i > 1) =>
        LET R == currentRefPrice
            s == brickSize
            R0 == s * (data[1].close \div s)
        IN /\ s > 0
           /\ R - s < data[i - 1].close
           /\ data[i - 1].close < R + s
           /\ R - R0 = s * (UpCount - DownCount)

\* up bricks and then more down bricks: the reference is below R0
C27_Witness ==
    /\ pc = "loop" /\ i > 2
    /\ UpCount > 0 /\ DownCount > UpCount
    /\ currentRefPrice < brickSize * (data[1].close \div brickSize)

\* bar e has emitted brick k
EmitsBrick(e) == \E k \in 1..Len(bricks) : Triggers(e, k)

(* C28: a marker of a bar that emits no brick is on no brick: the marker   *)
(* of a brick is the marker of the bar that emitted it, so that the marker *)
(* values on the bricks are among the markers of the brick-emitting bars.  *)
C28_NoCarryOver ==
    \A k \in 1..Len(bricks) :
        bricks[k].topoFundo /= <<>> =>
            \E e \in 1..Len(data) :
                Triggers(e, k) /\ data[e].topoFundo = bricks[k].topoFundo

\* a bar with a marker emitted nothing, and a later bar without marker
\* emitted a brick
C28_Witness ==
    \E d \in 1..Len(data) : \E k \in 1..Len(bricks) :
        /\ data[d].topoFundo /= <<>>
        /\ ~EmitsBrick(d)
        /\ d < SourceOf(k)
        /\ bricks[k].topoFundo = <<>>

(* C26: for every index of the keep-set the isTopSignal and topoFundoPoint *)
(* of areaData or renkoData are the classification and the anchor the      *)
(* filter used for that index, the anchor being the candidate's high or    *)
(* low; outside the keep-set topoFundoPoint is null and isTopSignal        *)
(* undefined.                                                              *)
C26_PointsMatchFilter ==
    pc = "done" =>
        /\ Len(activeData) = Len(items)
        /\ \A k \in 1..Len(items) :
              IF k \in validIndices
              THEN /\ activeData[k].isTopSignal =
                         (IF IsTopCandidate(items[k]) THEN "true" ELSE "false")
                   /\ activeData[k].topoFundoPoint = <<Price(items[k])>>
                   /\ Price(items[k]) \in {CandHigh(items[k]), CandLow(items[k])}
              ELSE /\ activeData[k].topoFundoPoint = <<>>
                   /\ activeData[k].isTopSignal = "undefined"

\* no step of a call changes the bars, and no step of the filter changes
\* its candidates or the bricks they were taken from
C21_InputsKept ==
    pc /= "done" =>
        /\ data' = data
        /\ pc = "filter" => (items' = items /\ bricks' = bricks)

(* C21: whatever calls came before, on whatever inputs, a call of          *)
(* calculateRenkoBricks returns what a first call with its arguments       *)
(* returns, and so does a call of filterRelevantSignals; no call modifies  *)
(* the bars or candidates passed to it.                                    *)
C21_PureCalls ==
    /\ [](pc = "returned" => bricks = calculateRenkoBricks(data, brickSize))
    /\ [](pc = "done" => validIndices = filterRelevantSignals(items))
    /\ [][C21_InputsKept]_vars

\* a call of calculateRenkoBricks has returned bricks while the keep-set, the
\* candidates and the bricks of calls on other bars are still around
C21_Witness ==
    /\ pc = "returned"
    /\ Len(bricks) > 0
    /\ validIndices /= {}
    /\ Len(items) > 0 /\ items /= bricks /\ items /= data
    /\ \E k \in 1..Len(items) : "wickBounds" \in DOMAIN items[k] /\ items[k].date > Len(data)

\* the time of the row a bar was made from, in hours
RowTime(bar) == file[bar.row].date.day * 24 + file[bar.row].date.time

(* C22: the bars parseCSV resolves with are in ascending order of time,    *)
(* whatever the order of the rows, also for rows of one day that differ in *)
(* their time part: an earlier bar never comes after a later one.          *)
C22_SortedByTime ==
    promise = "resolved" =>
        \A a \in 1..Len(parsedData) : \A b \in 1..Len(parsedData) :
            a < b => RowTime(parsedData[a]) <= RowTime(parsedData[b])

(* C23: every bar parseCSV resolves with has numbers, not NaN, in open,    *)
(* high, low, close and volume; its topoFundo is a number or absent, and   *)
(* absent when the marker cell of its row is empty.                        *)
C23_FiniteFields ==
    promise = "resolved" =>
        \A k \in 1..Len(parsedData) :
            LET b == parsedData[k]
            IN /\ b.open /= NaN /\ b.high /= NaN /\ b.low /= NaN
               /\ b.close /= NaN /\ b.volume /= NaN
               /\ b.topoFundo /= <<NaN>>
               /\ file[b.row].topos.kind = "empty" => b.topoFundo = <<>>

\* a file is chosen while no key is set
RejectedForKey == apiKey = "" /\ nUploads' = nUploads + 1

C29_RejectedStep ==
    RejectedForKey => (data' = data /\ appStage' = appStage /\ fileName' = fileName)

(* C29: once every handleFileUpload has completed, appStage is 'dashboard' *)
(* exactly when data is not empty, and loadingFile is false; an upload     *)
(* rejected for a missing API key leaves data, appStage and fileName       *)
(* unchanged.                                                              *)
C29_StageFollowsData ==
    /\ [](uploads = {} =>
            /\ appStage = "dashboard" <=> Len(data) > 0
            /\ loadingFile = FALSE)
    /\ [][C29_RejectedStep]_vars

\* all uploads have completed: one was read, a later one could not be read,
\* and the last was rejected for the missing key
C29_Witness ==
    /\ uploads = {} /\ nUploads = 3
    /\ appStage = "idle" /\ Len(data) = 0
    /\ requests /= {}
    /\ fileName = "c.csv"
    /\ apiKey = "" /\ isKeyModalOpen

(* C30: a non-null tradeSignal was generated from the data currently       *)
(* loaded, and loadingSignal is true whenever a request for a signal from  *)
(* the data currently loaded is still waiting for its answer.              *)
C30_SignalOfCurrentData ==
    /\ tradeSignal /= <<>> => tradeSignal[1].from = data
    /\ (\E r \in requests : r.from = data) => loadingSignal = TRUE

====
